---- MODULE Spec2Model ----
(***************************************************************************)
(* Model of goccy/wasi-go-net, package net (overlay generation).           *)
(*                                                                         *)
(*   - OverlayBuilder: CreateOverlayFile / OverlayFile.Close over a        *)
(*     temporary directory (specifications Spec and SpecEnv);              *)
(*   - SourceRewriter and PatternMatcher: createReplacedNetSource and the  *)
(*     matchers of GetReplacedNetSources over an abstract syntax tree      *)
(*     (specification SpecRewrite);                                        *)
(*   - SourceDiscovery and the whole pipeline: netPkgGoFiles,              *)
(*     findSourcePaths, GetReplacedNetSources and                          *)
(*     CreateReplacedNetPkgOverlayFile (specification SpecDiscover).       *)
(***************************************************************************)
EXTENDS Integers, Sequences, FiniteSets, TLC

VARIABLES
    files,      \* the temporary directory: temp file name -> content
    nextTmp,    \* number of names os.CreateTemp has handed out
    handles,    \* the *OverlayFile values returned so far, in order
    srcsOf,     \* history: the srcs argument each handle was built from
    closed,     \* history: indices of the handles Close was called on
    orphans,    \* history: files created by calls that returned an error
    ret,        \* what the last operation was and what it returned
    srcFile,        \* SpecRewrite: the source file given to the rewriter
    sel,        \* SpecRewrite: what the matchers said about it
    out,        \* SpecRewrite: what createReplacedNetSource returned for it
    env         \* SpecDiscover: the toolchain and the GOROOT/src/net tree

vars == <<files, nextTmp, handles, srcsOf, closed, orphans, ret, srcFile, sel, out, env>>

(***************************************************************************)
(* Bounds of the model.                                                    *)
(***************************************************************************)
MaxSrcs == 2
MaxTmp == 4
MaxHandles == 2
MaxDecls == 3

Min(a, b) == IF a < b THEN a ELSE b

Range(s) == {s[i] : i \in DOMAIN s}

SeqsUpTo(S, n) == UNION {[1..k -> S] : k \in 0..n}

(***************************************************************************)
(* Paths are sequences of path components; contents are byte sequences.    *)
(***************************************************************************)
\* The *ReplacedNetSource values handed to CreateOverlayFile: two files of
\* different paths (and the same base name), and a second content for one path.
ReplacedNetSource ==
    {[Path |-> <<"net", "dial.go">>, Content |-> <<1>>],
     [Path |-> <<"net", "http", "dial.go">>, Content |-> <<1, 2>>],
     [Path |-> <<"net", "dial.go">>, Content |-> <<1, 2>>]}

\* filepath.Base: the last element of the path.
Base(path) == IF Len(path) = 0 THEN "." ELSE path[Len(path)]

NoHandle == 0

EmptyMap == [p \in {} |-> <<>>]

\* File contents: the bytes of a rewritten source, the JSON value of a
\* manifest, or a manifest whose write was cut short.
FileBytes(data) == [kind |-> "bytes", data |-> data]

FileJSON(obj) == [kind |-> "json", data |-> obj]

Truncated == [kind |-> "partial", data |-> <<>>]

(***************************************************************************)
(* The file system calls.                                                  *)
(***************************************************************************)
\* os.CreateTemp("", pattern): a new, empty file whose name is the pattern
\* followed by a suffix no earlier call has produced.
CreateTemp(fs, n, pattern, fail) ==
    IF fail
    THEN [ok |-> FALSE, name |-> <<pattern, 0>>, fs |-> fs, n |-> n]
    ELSE [ok |-> TRUE, name |-> <<pattern, n + 1>>,
          fs |-> [x \in DOMAIN fs \cup {<<pattern, n + 1>>} |->
                     IF x = <<pattern, n + 1>> THEN FileBytes(<<>>) ELSE fs[x]],
          n |-> n + 1]

Prefix(content, k) ==
    IF k = 0 THEN <<>> ELSE SubSeq(content, 1, Min(k, Len(content)))

\* A Write that reports success and leaves the file empty.
WriteFileNothing(fs, name, content, fail, short) ==
    [ok |-> ~fail, fs |-> fs]

\* (*os.File).Write of a byte sequence: all of it, or on error the first
\* `short` bytes.
WriteFile(fs, name, content, fail, short) ==
    [ok |-> ~fail,
     fs |-> [fs EXCEPT ![name] =
                IF fail THEN FileBytes(Prefix(content, short))
                ELSE FileBytes(content)]]

\* os.Remove: the file is unlinked; a missing file is an error.
Remove(fs, name) ==
    [fs  |-> [x \in DOMAIN fs \ {name} |-> fs[x]],
     err |-> name \notin DOMAIN fs]

(***************************************************************************)
(* CreateOverlayFile.  Its steps are numbered for fault injection: for the *)
(* i-th source, CreateTemp is step 2i-1 and Write is step 2i; creating the *)
(* manifest is step 2N+1 and writing it is step 2N+2.  failAt = 0 means    *)
(* that no step fails.                                                     *)
(***************************************************************************)
RECURSIVE OverlayLoop(_, _, _, _, _)
OverlayLoop(srcs, i, st, failAt, short) ==
    IF i > Len(srcs) THEN st
    ELSE
      LET src == srcs[i]
          c   == CreateTemp(st.fs, st.n, <<Base(src.Path), "_">>, failAt = 2 * i - 1)
      IN  IF ~c.ok THEN [st EXCEPT !.err = TRUE]
          ELSE
            LET w == WriteFile(c.fs, c.name, src.Content, failAt = 2 * i, short)
            IN  IF ~w.ok
                THEN [st EXCEPT !.err = TRUE, !.fs = w.fs, !.n = c.n]
                ELSE OverlayLoop(srcs, i + 1,
                        [fs |-> w.fs, n |-> c.n, err |-> FALSE,
                         tmpFilePaths |-> Append(st.tmpFilePaths, c.name),
                         overlayMap |->
                            [p \in DOMAIN st.overlayMap \cup {src.Path} |->
                                IF p = src.Path THEN c.name
                                ELSE st.overlayMap[p]]],
                        failAt, short)

\* An error return that first removes what the call created.
FailedCleanup(fs0, fs, n) ==
    [fs |-> fs0, n |-> n, err |-> TRUE, handle |-> NoHandle]

\* return nil, fmt.Errorf(...): no handle; the temporary directory stays as
\* the call left it (fs0 is the directory the call started from).
Failed(fs0, fs, n) ==
    [fs |-> fs, n |-> n, err |-> TRUE, handle |-> NoHandle]

\* json.Marshal(map[string]interface{}{"Replace": overlayMap}): a JSON object
\* with the one member "Replace", itself an object with one member per key.
Marshal(overlayMap) == [Replace |-> overlayMap]

CreateOverlayFile(fs, n, srcs, failAt, short) ==
    LET st == OverlayLoop(srcs, 1,
                 [fs |-> fs, n |-> n, err |-> FALSE,
                  tmpFilePaths |-> <<>>, overlayMap |-> EmptyMap],
                 failAt, short)
        N  == Len(srcs)
    IN  IF st.err THEN Failed(fs, st.fs, st.n)
        ELSE
          LET c == CreateTemp(st.fs, st.n, <<"wasi_go_net_overlay">>, failAt = 2 * N + 1)
          IN  IF ~c.ok
              THEN Failed(fs, st.fs, st.n)
              ELSE
                IF failAt = 2 * N + 2
                THEN Failed(fs, [c.fs EXCEPT ![c.name] = Truncated], c.n)
                ELSE [fs |-> [c.fs EXCEPT ![c.name] = FileJSON(Marshal(st.overlayMap))],
                      n |-> c.n, err |-> FALSE,
                      handle |-> [path |-> c.name,
                                  tmpFilePaths |-> st.tmpFilePaths]]

(***************************************************************************)
(* OverlayFile.Close: os.Remove on the manifest, then on every temporary   *)
(* file, each error discarded.                                             *)
(***************************************************************************)
RECURSIVE RemoveEach(_, _, _)
RemoveEach(fs, paths, i) ==
    IF i > Len(paths) THEN fs
    ELSE RemoveEach(Remove(fs, paths[i]).fs, paths, i + 1)

\* A Close that gives up when removing the manifest fails.
CloseFilesStopOnError(fs, f) ==
    IF Remove(fs, f.path).err THEN fs
    ELSE RemoveEach(Remove(fs, f.path).fs, f.tmpFilePaths, 1)

CloseFiles(fs, f) == RemoveEach(Remove(fs, f.path).fs, f.tmpFilePaths, 1)

HandlePaths(f) == {f.path} \cup Range(f.tmpFilePaths)

(***************************************************************************)
(* Actions of the overlay builder.                                         *)
(***************************************************************************)
NotRun == [done |-> FALSE]

InitOverlay ==
    /\ srcFile = NotRun
    /\ env = NotRun
    /\ sel = NotRun
    /\ out = NotRun
    /\ files = EmptyMap
    /\ nextTmp = 0
    /\ handles = <<>>
    /\ srcsOf = <<>>
    /\ closed = {}
    /\ orphans = {}
    /\ ret = [op |-> "none"]

DoCreateOverlayFile ==
    \E srcs \in SeqsUpTo(ReplacedNetSource, MaxSrcs) :
    \E failAt \in 0..(2 * Len(srcs) + 2) :
    \E short \in 0..1 :
        /\ Len(handles) < MaxHandles
        /\ nextTmp + Len(srcs) + 1 <= MaxTmp
        /\ (short = 1 => failAt # 0 /\ failAt % 2 = 0 /\ failAt <= 2 * Len(srcs))
        /\ LET r == CreateOverlayFile(files, nextTmp, srcs, failAt, short)
           IN  /\ files' = r.fs
               /\ nextTmp' = r.n
               /\ handles' = IF r.err THEN handles ELSE Append(handles, r.handle)
               /\ srcsOf' = IF r.err THEN srcsOf ELSE Append(srcsOf, srcs)
               /\ orphans' = IF r.err
                             THEN orphans \cup (DOMAIN r.fs \ DOMAIN files)
                             ELSE orphans
               /\ ret' = [op |-> "CreateOverlayFile", err |-> r.err,
                          srcs |-> srcs, failAt |-> failAt,
                          handle |-> IF r.err THEN NoHandle ELSE Len(handles) + 1,
                          created |-> DOMAIN r.fs \ DOMAIN files]
        /\ UNCHANGED <<closed, srcFile, sel, out, env>>

DoClose ==
    \E i \in DOMAIN handles :
        /\ files' = CloseFiles(files, handles[i])
        /\ closed' = closed \cup {i}
        \* Close has no result: there is no error for it to report.
        /\ ret' = [op |-> "Close", handle |-> i, again |-> i \in closed,
                   err |-> FALSE,
                   missing |-> HandlePaths(handles[i]) \ DOMAIN files]
        /\ UNCHANGED <<nextTmp, handles, srcsOf, orphans, srcFile, sel, out, env>>

\* Something other than this program removes one file of a handle.
ExternalRemove ==
    \E i \in DOMAIN handles : \E name \in HandlePaths(handles[i]) :
        /\ name \in DOMAIN files
        /\ files' = Remove(files, name).fs
        /\ ret' = [op |-> "ExternalRemove", name |-> name]
        /\ UNCHANGED <<nextTmp, handles, srcsOf, closed, orphans, srcFile, sel, out, env>>

Init == InitOverlay

Next == DoCreateOverlayFile \/ DoClose

Spec == Init /\ [][Next]_vars

NextEnv == DoCreateOverlayFile \/ DoClose \/ ExternalRemove

SpecEnv == Init /\ [][NextEnv]_vars

(***************************************************************************)
(* Syntax trees (go/ast), as far as the matchers and the rewriter look at  *)
(* them.  A file is its Imports (every import spec, in order) and its      *)
(* Decls; a declaration is an import GenDecl, another GenDecl or a         *)
(* FuncDecl.  The parser is run with mode 0: the tree holds no comments.   *)
(***************************************************************************)
ImportSpec(name, path) == [Name |-> name, Path |-> path]

Field(names, type) == [Names |-> names, Type |-> type]

\* A receiver type: X or *X, X an identifier or some other expression.
TypeExpr(star, isIdent, name) == [star |-> star, ident |-> isIdent, name |-> name]

NoRecv == [nil |-> TRUE, List |-> <<>>]

Recv(names, type) == [nil |-> FALSE, List |-> <<Field(names, type)>>]

OrigBody == [kind |-> "orig", Fun |-> "", Args |-> <<>>]

NoBody == [kind |-> "none", Fun |-> "", Args |-> <<>>]

\* { return Fun(Args...) }
ReturnCall(fun, args) == [kind |-> "return", Fun |-> fun, Args |-> args]

ImportDecl(specs) ==
    [kind |-> "import", Name |-> "", Recv |-> NoRecv, Params |-> <<>>,
     Results |-> <<>>, Body |-> NoBody, Specs |-> specs, Doc |-> ""]

TypeDecl(name) ==
    [kind |-> "type", Name |-> name, Recv |-> NoRecv, Params |-> <<>>,
     Results |-> <<>>, Body |-> NoBody, Specs |-> <<>>, Doc |-> ""]

FuncDecl(name, recv, params, results, body, doc) ==
    [kind |-> "func", Name |-> name, Recv |-> recv, Params |-> params,
     Results |-> results, Body |-> body, Specs |-> <<>>, Doc |-> doc]

RECURSIVE Flatten(_)
Flatten(ss) == IF ss = <<>> THEN <<>> ELSE Head(ss) \o Flatten(Tail(ss))

\* parser.ParseFile fills File.Imports with the specs of the import
\* declarations, in source order.
ParsedFile(decls) ==
    [ok |-> TRUE,
     Imports |-> Flatten([i \in DOMAIN
                            SelectSeq(decls, LAMBDA d : d.kind = "import") |->
                            SelectSeq(decls, LAMBDA d : d.kind = "import")[i].Specs]),
     Decls |-> decls]

\* A file parser.ParseFile rejects.
Unparsable == [ok |-> FALSE, Imports |-> <<>>, Decls |-> <<>>]

(***************************************************************************)
(* The matchers GetReplacedNetSources hands to findSourcePaths.            *)
(***************************************************************************)
DialMatcher(decl) ==
    IF decl.Name # "DialContext" THEN FALSE
    ELSE IF decl.Recv.nil THEN FALSE
    ELSE IF Len(decl.Recv.List) = 0 THEN FALSE
    ELSE IF Len(decl.Recv.List[1].Names) = 0 THEN FALSE
    ELSE IF ~decl.Recv.List[1].Type.star THEN FALSE
    ELSE IF ~decl.Recv.List[1].Type.ident THEN FALSE
    ELSE decl.Recv.List[1].Type.name = "Dialer"

ListenMatcher(decl) == decl.Name = "Listen" /\ decl.Recv.nil

\* The loop of findSourcePaths over one parsed file: some FuncDecl of it
\* satisfies some matcher.
FileMatches(file) ==
    \E i \in DOMAIN file.Decls :
        /\ file.Decls[i].kind = "func"
        /\ DialMatcher(file.Decls[i]) \/ ListenMatcher(file.Decls[i])

(***************************************************************************)
(* createReplacedNetSource.                                                *)
(***************************************************************************)
hasUnsafeImport(astFile) ==
    \E i \in DOMAIN astFile.Imports : astFile.Imports[i].Path = "unsafe"

unsafeImport == ImportSpec("_", "unsafe")

\* The index of the last import declaration, 0 when there is none.
lastImportDecl(decls) ==
    IF \E i \in DOMAIN decls : decls[i].kind = "import"
    THEN CHOOSE i \in DOMAIN decls :
            /\ decls[i].kind = "import"
            /\ \A j \in DOMAIN decls : decls[j].kind = "import" => j <= i
    ELSE 0

\* The import added to every file, whatever it imports already.
AddUnsafeImportAlways(astFile) ==
    [astFile EXCEPT
        !.Imports = Append(astFile.Imports, unsafeImport),
        !.Decls = IF lastImportDecl(astFile.Decls) # 0
                  THEN [astFile.Decls EXCEPT ![lastImportDecl(astFile.Decls)].Specs =
                           Append(@, unsafeImport)]
                  ELSE <<ImportDecl(<<unsafeImport>>)>> \o astFile.Decls]

\* "Add unsafe import if not present"
AddUnsafeImport(astFile) ==
    IF hasUnsafeImport(astFile) THEN astFile
    ELSE [astFile EXCEPT
            !.Imports = Append(astFile.Imports, unsafeImport),
            !.Decls = IF lastImportDecl(astFile.Decls) # 0
                      THEN [astFile.Decls EXCEPT ![lastImportDecl(astFile.Decls)].Specs =
                               Append(@, unsafeImport)]
                      ELSE <<ImportDecl(<<unsafeImport>>)>> \o astFile.Decls]

\* The two cases of the switch over a FuncDecl.
IsDialCase(decl) ==
    decl.kind = "func" /\ decl.Name = "DialContext" /\ ~decl.Recv.nil

IsListenCase(decl) ==
    decl.kind = "func" /\ ~IsDialCase(decl) /\ decl.Name = "Listen" /\ decl.Recv.nil

\* "Find the target functions and modify them"
ReplaceBody(decl) ==
    IF IsDialCase(decl)
    THEN [decl EXCEPT !.Body = ReturnCall("_dialContext", <<"ctx", "network", "address">>)]
    ELSE IF IsListenCase(decl)
    THEN [decl EXCEPT !.Body = ReturnCall("_listen", <<"network", "address">>)]
    ELSE decl

foundDialContext(decls) == \E i \in DOMAIN decls : IsDialCase(decls[i])

foundListen(decls) == \E i \in DOMAIN decls : IsListenCase(decls[i])

dialContextFuncDecl ==
    FuncDecl("_dialContext", NoRecv,
             <<Field(<<"ctx">>, "context.Context"), Field(<<"network">>, "string"),
               Field(<<"address">>, "string")>>,
             <<Field(<<>>, "Conn"), Field(<<>>, "error")>>,
             NoBody,
             "//go:linkname _dialContext github.com/goccy/wasi-go-net/wasip1.DialContext")

listenFuncDecl ==
    FuncDecl("_listen", NoRecv,
             <<Field(<<"network">>, "string"), Field(<<"address">>, "string")>>,
             <<Field(<<>>, "Listener"), Field(<<>>, "error")>>,
             NoBody,
             "//go:linkname _listen github.com/goccy/wasi-go-net/wasip1.Listen")

\* Both stubs appended as soon as one of the targets was found.
AppendStubsBoth(decls, dial, listen) ==
    decls \o <<dialContextFuncDecl, listenFuncDecl>>

AppendStubs(decls, dial, listen) ==
    (decls \o (IF dial THEN <<dialContextFuncDecl>> ELSE <<>>))
        \o (IF listen THEN <<listenFuncDecl>> ELSE <<>>)

\* format.Node prints the package clause and File.Decls; File.Imports is
\* not printed.
Format(astFile) == [Decls |-> astFile.Decls]

NoContent == [Decls |-> <<>>]

\* The result for a file on disk (the file's parse, or Unparsable): the
\* error, the content returned, and astFile.Imports as the function left it.
createReplacedNetSource(file) ==
    IF ~file.ok
    THEN [done |-> TRUE, err |-> "failed to parse file", content |-> NoContent,
          Imports |-> <<>>]
    ELSE
      LET imported == AddUnsafeImport(file)
          replaced == [i \in DOMAIN imported.Decls |-> ReplaceBody(imported.Decls[i])]
          dial     == foundDialContext(imported.Decls)
          listen   == foundListen(imported.Decls)
      IN  IF ~dial /\ ~listen
          THEN [done |-> TRUE, err |-> "no target functions", content |-> NoContent,
                Imports |-> imported.Imports]
          ELSE [done |-> TRUE, err |-> "", Imports |-> imported.Imports,
                content |-> Format([imported EXCEPT
                               !.Decls = AppendStubs(replaced, dial, listen)])]

(***************************************************************************)
(* The source files the rewriter is tried on.                              *)
(***************************************************************************)
CtxParams ==
    <<Field(<<"ctx">>, "context.Context"), Field(<<"network", "address">>, "string")>>

CtxParamsRenamed ==
    <<Field(<<"c">>, "context.Context"), Field(<<"n", "a">>, "string")>>

ConnResults == <<Field(<<>>, "Conn"), Field(<<>>, "error")>>

ListenerResults == <<Field(<<>>, "Listener"), Field(<<>>, "error")>>

DeclPool ==
    { TypeDecl("Dialer"),
      \* func (d *Dialer) DialContext(ctx context.Context, network, address string) (Conn, error)
      FuncDecl("DialContext", Recv(<<"d">>, TypeExpr(TRUE, TRUE, "Dialer")),
               CtxParams, ConnResults, OrigBody, ""),
      \* func (d *Dialer) DialContext(c context.Context, n, a string) (Conn, error)
      FuncDecl("DialContext", Recv(<<"d">>, TypeExpr(TRUE, TRUE, "Dialer")),
               CtxParamsRenamed, ConnResults, OrigBody, ""),
      \* func (*Dialer) DialContext(ctx context.Context, network, address string) (Conn, error)
      FuncDecl("DialContext", Recv(<<>>, TypeExpr(TRUE, TRUE, "Dialer")),
               CtxParams, ConnResults, OrigBody, ""),
      \* func (d *socksDialer) DialContext(ctx context.Context, network, address string) (Conn, error)
      FuncDecl("DialContext", Recv(<<"d">>, TypeExpr(TRUE, TRUE, "socksDialer")),
               CtxParams, ConnResults, OrigBody, ""),
      \* func (d Dialer) DialContext(ctx context.Context, network, address string) (Conn, error)
      FuncDecl("DialContext", Recv(<<"d">>, TypeExpr(FALSE, TRUE, "Dialer")),
               CtxParams, ConnResults, OrigBody, ""),
      \* func (d *Dialer[T]) DialContext(ctx context.Context, network, address string) (Conn, error)
      FuncDecl("DialContext", Recv(<<"d">>, TypeExpr(TRUE, FALSE, "Dialer")),
               CtxParams, ConnResults, OrigBody, ""),
      \* func DialContext(ctx context.Context, network, address string) (Conn, error)
      FuncDecl("DialContext", NoRecv, CtxParams, ConnResults, OrigBody, ""),
      \* func Listen(network, address string) (Listener, error)
      FuncDecl("Listen", NoRecv, <<Field(<<"network", "address">>, "string")>>,
               ListenerResults, OrigBody, ""),
      \* func Listen(n, a string) (Listener, error)
      FuncDecl("Listen", NoRecv, <<Field(<<"n", "a">>, "string")>>,
               ListenerResults, OrigBody, ""),
      \* func (lc *ListenConfig) Listen(ctx context.Context, network, address string) (Listener, error)
      FuncDecl("Listen", Recv(<<"lc">>, TypeExpr(TRUE, TRUE, "ListenConfig")),
               CtxParams, ListenerResults, OrigBody, ""),
      \* func Dial(network, address string) (Conn, error)
      FuncDecl("Dial", NoRecv, <<Field(<<"network", "address">>, "string")>>,
               ConnResults, OrigBody, "") }

\* The import declarations a file starts with (the parser rejects an import
\* after another declaration).
ImportPool ==
    { <<>>,
      <<ImportDecl(<<ImportSpec("", "context")>>)>>,
      <<ImportDecl(<<ImportSpec("", "context"), ImportSpec("_", "unsafe")>>)>>,
      <<ImportDecl(<<ImportSpec("", "context")>>), ImportDecl(<<ImportSpec("", "time")>>)>>,
      <<ImportDecl(<<ImportSpec("", "unsafe")>>), ImportDecl(<<ImportSpec("", "time")>>)>>,
      <<ImportDecl(<<ImportSpec("_", "unsafe")>>),
        ImportDecl(<<ImportSpec("", "context"), ImportSpec("", "unsafe")>>)>> }

SourceFiles ==
    {Unparsable} \cup
    {ParsedFile(imports \o decls) :
        imports \in ImportPool, decls \in SeqsUpTo(DeclPool, MaxDecls)}

(***************************************************************************)
(* The rewriter and the matchers on one file.                              *)
(***************************************************************************)
InitRewrite ==
    /\ srcFile \in SourceFiles
    /\ env = NotRun
    /\ sel = NotRun
    /\ out = NotRun
    /\ files = EmptyMap
    /\ nextTmp = 0
    /\ handles = <<>>
    /\ srcsOf = <<>>
    /\ closed = {}
    /\ orphans = {}
    /\ ret = [op |-> "none"]

\* findSourcePaths on the file: a file that cannot be parsed is skipped.
DoMatch ==
    /\ ~sel.done
    /\ sel' = [done |-> TRUE, selected |-> srcFile.ok /\ FileMatches(srcFile)]
    /\ UNCHANGED <<files, nextTmp, handles, srcsOf, closed, orphans, ret, srcFile, out, env>>

DoRewrite ==
    /\ ~out.done
    /\ out' = createReplacedNetSource(srcFile)
    /\ UNCHANGED <<files, nextTmp, handles, srcsOf, closed, orphans, ret, srcFile, sel, env>>

NextRewrite == DoMatch \/ DoRewrite

SpecRewrite == InitRewrite /\ [][NextRewrite]_vars

(***************************************************************************)
(* Discovery.  A directory entry has a name (a base and one of the         *)
(* suffixes below), is a directory or a file, may fail os.Lstat or, for a  *)
(* directory, the reading of its entries; a file holds a source file.      *)
(***************************************************************************)
EntryName(base, suffix) == [base |-> base, suffix |-> suffix]

\* filepath.Ext: the suffix from the last dot on.
Ext(name) ==
    IF name.suffix \in {".go", "_test.go"} THEN ".go"
    ELSE IF name.suffix = ".txt" THEN ".txt"
    ELSE ""

\* strings.HasSuffix(name, "_test.go")
HasTestSuffix(name) == name.suffix = "_test.go"

FileEntry(name, lstatErr, file) ==
    [name |-> name, dir |-> FALSE, lstatErr |-> lstatErr, readErr |-> FALSE,
     children |-> <<>>, file |-> file]

DirEntry(name, lstatErr, readErr, children) ==
    [name |-> name, dir |-> TRUE, lstatErr |-> lstatErr, readErr |-> readErr,
     children |-> children, file |-> Unparsable]

\* A walk function that lets the walk go on after an error.
WalkFnSkipErrors(path, info, err, acc) ==
    IF err THEN [ret |-> acc, err |-> FALSE]
    ELSE IF info.dir \/ Ext(info.name) # ".go" THEN [ret |-> acc, err |-> FALSE]
    ELSE IF HasTestSuffix(info.name) THEN [ret |-> acc, err |-> FALSE]
    ELSE [ret |-> Append(acc, path), err |-> FALSE]

\* The function netPkgGoFiles hands to filepath.Walk; acc is the captured
\* slice ret, err of the result is whether the function returned an error.
WalkFn(path, info, err, acc) ==
    IF err THEN [ret |-> acc, err |-> TRUE]
    ELSE IF info.dir \/ Ext(info.name) # ".go" THEN [ret |-> acc, err |-> FALSE]
    ELSE IF HasTestSuffix(info.name) THEN [ret |-> acc, err |-> FALSE]
    ELSE [ret |-> Append(acc, path), err |-> FALSE]

\* filepath.Walk (path/filepath): a file is visited; a directory is visited
\* with the error of reading its entries, then its entries in lexical order;
\* an entry that fails Lstat is visited with that error.  An error returned
\* by the walk function (it never returns SkipDir here) ends the walk.
RECURSIVE walk(_, _, _)
RECURSIVE walkEntries(_, _, _, _)
walk(info, path, acc) ==
    IF ~info.dir THEN WalkFn(path, info, FALSE, acc)
    ELSE
      LET r1 == WalkFn(path, info, info.readErr, acc)
      IN  IF info.readErr \/ r1.err THEN r1
          ELSE walkEntries(info.children, 1, path, r1.ret)

walkEntries(children, i, path, acc) ==
    IF i > Len(children) THEN [ret |-> acc, err |-> FALSE]
    ELSE
      LET c        == children[i]
          filename == Append(path, c.name)
          r        == IF c.lstatErr THEN WalkFn(filename, c, TRUE, acc)
                      ELSE walk(c, filename, acc)
      IN  IF r.err THEN r ELSE walkEntries(children, i + 1, path, r.ret)

Walk(root, path) ==
    IF root.lstatErr THEN WalkFn(path, root, TRUE, <<>>)
    ELSE walk(root, path, <<>>)

\* netPkgDir: filepath.Join(GOROOT, "src", "net"), or the error of
\* `go env GOROOT`.
NetDir == <<EntryName("net", "")>>

netPkgDir(e) == [err |-> e.goEnvFails, dir |-> NetDir]

\* netPkgGoFiles: the error of filepath.Walk is discarded.
netPkgGoFiles(e) ==
    IF netPkgDir(e).err THEN [err |-> TRUE, ret |-> <<>>]
    ELSE [err |-> FALSE, ret |-> Walk(e.root, netPkgDir(e).dir).ret]

\* os.ReadFile and parser.ParseFile of the file at a path below an entry.
RECURSIVE FileAt(_, _, _)
FileAt(info, path, k) ==
    IF k > Len(path) THEN info.file
    ELSE LET next == {i \in DOMAIN info.children : info.children[i].name = path[k]}
         IN  IF next = {} THEN Unparsable
             ELSE FileAt(info.children[CHOOSE i \in next : TRUE], path, k + 1)

ReadAndParse(e, path) == FileAt(e.root, path, 2)

\* Every path of the tree, in the order sort.Strings gives them.
SortedPaths ==
    <<<<EntryName("net", ""), EntryName("dial", ".go")>>,
      <<EntryName("net", ""), EntryName("dial", "_test.go")>>,
      <<EntryName("net", ""), EntryName("http", ""), EntryName("socks_bundle", ".go")>>,
      <<EntryName("net", ""), EntryName("net", ".go")>>,
      <<EntryName("net", ""), EntryName("testdata", ".txt")>>>>

\* sort.Strings on a set of paths.
SortStrings(pathSet) == SelectSeq(SortedPaths, LAMBDA p : p \in pathSet)

\* findSourcePaths with the two matchers: files that cannot be read or
\* parsed are skipped; the paths of the others that match, sorted.
findSourcePaths(e, netPkgFiles) ==
    SortStrings({p \in Range(netPkgFiles) :
                    ReadAndParse(e, p).ok /\ FileMatches(ReadAndParse(e, p))})

\* The loop of GetReplacedNetSources over the paths found.
RECURSIVE ReplaceEach(_, _, _, _)
ReplaceEach(e, paths, i, acc) ==
    IF i > Len(paths) THEN [err |-> FALSE, srcs |-> acc]
    ELSE
      LET r == createReplacedNetSource(ReadAndParse(e, paths[i]))
      IN  IF r.err # "" THEN [err |-> TRUE, srcs |-> <<>>]
          ELSE ReplaceEach(e, paths, i + 1,
                           Append(acc, [Path |-> paths[i], Content |-> r.content]))

\* GetReplacedNetSources without the check for an empty list of paths.
GetReplacedNetSourcesUnchecked(e) ==
    LET netPkgFiles == netPkgGoFiles(e)
    IN  IF netPkgFiles.err THEN [err |-> TRUE, srcs |-> <<>>]
        ELSE ReplaceEach(e, findSourcePaths(e, netPkgFiles.ret), 1, <<>>)

GetReplacedNetSources(e) ==
    LET netPkgFiles == netPkgGoFiles(e)
    IN  IF netPkgFiles.err THEN [err |-> TRUE, srcs |-> <<>>]
        ELSE
          LET paths == findSourcePaths(e, netPkgFiles.ret)
          IN  IF Len(paths) = 0 THEN [err |-> TRUE, srcs |-> <<>>]
              ELSE ReplaceEach(e, paths, 1, <<>>)

\* CreateReplacedNetPkgOverlayFile on the temporary directory fs.
CreateReplacedNetPkgOverlayFile(e, fs, n, failAt) ==
    LET got == GetReplacedNetSources(e)
    IN  IF got.err THEN Failed(fs, fs, n)
        ELSE CreateOverlayFile(fs, n, got.srcs, failAt, 0)

(***************************************************************************)
(* The trees discovery is run on: GOROOT/src/net with                      *)
(*   dial.go, dial_test.go, http/socks_bundle.go, net.go, testdata.txt,    *)
(* the three source files drawn from DiskFiles, and at most one fault:     *)
(* `go env GOROOT` fails, the Lstat of one entry fails, or the entries of  *)
(* one directory cannot be read.                                           *)
(***************************************************************************)
DialFile ==
    ParsedFile(<<ImportDecl(<<ImportSpec("", "context")>>), TypeDecl("Dialer"),
                 FuncDecl("DialContext", Recv(<<"d">>, TypeExpr(TRUE, TRUE, "Dialer")),
                          CtxParams, ConnResults, OrigBody, "")>>)

ListenFile ==
    ParsedFile(<<FuncDecl("Listen", NoRecv, <<Field(<<"network", "address">>, "string")>>,
                          ListenerResults, OrigBody, "")>>)

SocksFile ==
    ParsedFile(<<ImportDecl(<<ImportSpec("", "context")>>),
                 FuncDecl("DialContext", Recv(<<"d">>, TypeExpr(TRUE, TRUE, "socksDialer")),
                          CtxParams, ConnResults, OrigBody, "")>>)

DiskFiles == {DialFile, ListenFile, SocksFile, Unparsable}

Faults ==
    {"none", "go env", "lstat net", "read net", "lstat dial.go", "lstat dial_test.go",
     "lstat http", "read http", "lstat socks_bundle.go", "lstat net.go",
     "lstat testdata.txt"}

NetTree(dial, socks, net, fault) ==
    DirEntry(EntryName("net", ""), fault = "lstat net", fault = "read net",
        <<FileEntry(EntryName("dial", ".go"), fault = "lstat dial.go", dial),
          FileEntry(EntryName("dial", "_test.go"), fault = "lstat dial_test.go", DialFile),
          DirEntry(EntryName("http", ""), fault = "lstat http", fault = "read http",
              <<FileEntry(EntryName("socks_bundle", ".go"),
                          fault = "lstat socks_bundle.go", socks)>>),
          FileEntry(EntryName("net", ".go"), fault = "lstat net.go", net),
          FileEntry(EntryName("testdata", ".txt"), fault = "lstat testdata.txt",
                    Unparsable)>>)

InitDiscover ==
    /\ \E dial \in DiskFiles, socks \in DiskFiles, net \in DiskFiles,
          fault \in Faults :
          env = [done |-> TRUE, goEnvFails |-> (fault = "go env"), fault |-> fault,
                 root |-> NetTree(dial, socks, net, fault)]
    /\ srcFile = NotRun
    /\ sel = NotRun
    /\ out = NotRun
    /\ files = EmptyMap
    /\ nextTmp = 0
    /\ handles = <<>>
    /\ srcsOf = <<>>
    /\ closed = {}
    /\ orphans = {}
    /\ ret = [op |-> "none"]

DoNetPkgGoFiles ==
    /\ LET r == netPkgGoFiles(env)
       IN  ret' = [op |-> "netPkgGoFiles", err |-> r.err, paths |-> r.ret]
    /\ UNCHANGED <<files, nextTmp, handles, srcsOf, closed, orphans, srcFile, sel, out, env>>

DoGetReplacedNetSources ==
    /\ LET r == GetReplacedNetSources(env)
       IN  ret' = [op |-> "GetReplacedNetSources", err |-> r.err, srcs |-> r.srcs]
    /\ UNCHANGED <<files, nextTmp, handles, srcsOf, closed, orphans, srcFile, sel, out, env>>

\* The srcs are computed here a second time only to bound the fault
\* injection and to record them; the operation itself is the operator above.
DoCreateReplacedNetPkgOverlayFile ==
    LET got == GetReplacedNetSources(env)
    IN
    \E failAt \in 0..(2 * Len(got.srcs) + 2) :
        /\ Len(handles) < MaxHandles
        /\ nextTmp + Len(got.srcs) + 1 <= MaxTmp
        /\ got.err => failAt = 0
        /\ LET r == CreateReplacedNetPkgOverlayFile(env, files, nextTmp, failAt)
           IN  /\ files' = r.fs
               /\ nextTmp' = r.n
               /\ handles' = IF r.err THEN handles ELSE Append(handles, r.handle)
               /\ srcsOf' = IF r.err THEN srcsOf ELSE Append(srcsOf, got.srcs)
               /\ orphans' = IF r.err
                             THEN orphans \cup (DOMAIN r.fs \ DOMAIN files)
                             ELSE orphans
               /\ ret' = [op |-> "CreateReplacedNetPkgOverlayFile", err |-> r.err,
                          failAt |-> failAt,
                          handle |-> IF r.err THEN NoHandle ELSE Len(handles) + 1,
                          created |-> DOMAIN r.fs \ DOMAIN files]
        /\ UNCHANGED <<closed, srcFile, sel, out, env>>

NextDiscover ==
    DoNetPkgGoFiles \/ DoGetReplacedNetSources \/ DoCreateReplacedNetPkgOverlayFile

SpecDiscover == InitDiscover /\ [][NextDiscover]_vars

(***************************************************************************)
(* Claims about discovery and the pipeline.                                *)
(***************************************************************************)
\* No file discovery returns has a declaration one of the matchers accepts.
NoFileMatches ==
    \A i \in DOMAIN netPkgGoFiles(env).ret :
        LET f == ReadAndParse(env, netPkgGoFiles(env).ret[i])
        IN  \A j \in DOMAIN f.Decls :
              ~(f.Decls[j].kind = "func"
                /\ (DialMatcher(f.Decls[j]) \/ ListenMatcher(f.Decls[j])))

\* C3: when no discovered file has a matching declaration (also when no
\* file is discovered), GetReplacedNetSources returns an error and no
\* sources, CreateReplacedNetPkgOverlayFile returns an error and no handle
\* and creates no file; a handle it returns never has an empty mapping.
C3_NoMatchIsAnError ==
    /\ (ret.op = "GetReplacedNetSources" /\ NoFileMatches) =>
          (ret.err /\ ret.srcs = <<>>)
    /\ (ret.op = "CreateReplacedNetPkgOverlayFile" /\ NoFileMatches) =>
          (ret.err /\ ret.handle = NoHandle /\ ret.created = {})
    /\ (env.done /\ NoFileMatches) => (files = EmptyMap /\ handles = <<>>)
    /\ (ret.op = "CreateReplacedNetPkgOverlayFile" /\ ~ret.err) =>
          /\ ret.handle # NoHandle
          /\ files[handles[ret.handle].path].kind = "json"
          /\ DOMAIN files[handles[ret.handle].path].data.Replace # {}

\* The pipeline was run on a tree where files are discovered and none matches.
C3_Witness ==
    /\ ret.op = "CreateReplacedNetPkgOverlayFile"
    /\ NoFileMatches
    /\ Len(netPkgGoFiles(env).ret) >= 2
    /\ ret.err

\* The entry a fault is at.
FaultPath(fault) ==
    CASE fault = "lstat net" -> <<EntryName("net", "")>>
      [] fault = "read net" -> <<EntryName("net", "")>>
      [] fault = "lstat dial.go" -> SortedPaths[1]
      [] fault = "lstat dial_test.go" -> SortedPaths[2]
      [] fault = "lstat http" -> SubSeq(SortedPaths[3], 1, 2)
      [] fault = "read http" -> SubSeq(SortedPaths[3], 1, 2)
      [] fault = "lstat socks_bundle.go" -> SortedPaths[3]
      [] fault = "lstat net.go" -> SortedPaths[4]
      [] fault = "lstat testdata.txt" -> SortedPaths[5]

IsUnder(path, dir) ==
    Len(dir) <= Len(path) /\ SubSeq(path, 1, Len(dir)) = dir

\* The files of the tree with extension .go whose name does not end in
\* _test.go.
GoFiles ==
    {p \in Range(SortedPaths) :
        Ext(p[Len(p)]) = ".go" /\ ~HasTestSuffix(p[Len(p)])}

\* C9: a traversal error on one entry loses only that entry's subtree: every
\* .go file that is no test file and lies outside it is returned, and
\* netPkgGoFiles returns no error.
C9_ErrorSkipsOnlyItsSubtree ==
    (ret.op = "netPkgGoFiles" /\ env.fault \notin {"none", "go env"}) =>
        /\ ~ret.err
        /\ \A p \in GoFiles :
              ~IsUnder(p, FaultPath(env.fault)) => p \in Range(ret.paths)

(***************************************************************************)
(* Claims about the rewriter.                                              *)
(***************************************************************************)
Max(a, b) == IF a > b THEN a ELSE b

Succeeded == out.done /\ out.err = ""

IsStub(decl, name) ==
    decl.kind = "func" /\ decl.Name = name /\ decl.Recv.nil /\ decl.Body = NoBody

StubCount(decls, name) ==
    Cardinality({i \in DOMAIN decls : IsStub(decls[i], name)})

\* The output's declarations that come before the stubs.
PreStub(decls) ==
    SubSeq(decls, 1,
           Len(decls) - StubCount(decls, "_dialContext") - StubCount(decls, "_listen"))

\* How far the original declarations were shifted by an inserted import
\* declaration.
Shift == Len(PreStub(out.content.Decls)) - Len(srcFile.Decls)

\* The output's declaration at the place of the original's i-th.
OutDecl(i) == out.content.Decls[i + Shift]

CallsPlaceholder(decl, name) ==
    decl.kind = "func" /\ decl.Body.kind = "return" /\ decl.Body.Fun = name

\* A declaration without what the rewriter may change in it.
Skeleton(decl) == [decl EXCEPT !.Body = NoBody, !.Specs = <<>>]

ImportDecls(decls) == SelectSeq(decls, LAMBDA d : d.kind = "import")

\* The import specs naming "unsafe" among the declarations.
UnsafeSpecs(decls) ==
    UNION {{<<i, j>> : j \in {k \in DOMAIN decls[i].Specs :
                                 decls[i].Specs[k].Path = "unsafe"}} :
           i \in {k \in DOMAIN decls : decls[k].kind = "import"}}

ParamNames(decl) == Flatten([i \in DOMAIN decl.Params |-> decl.Params[i].Names])

\* C4: on success the output's declarations are the file's own (after the
\* import step, bodies apart) followed by the stubs: one body-less
\* _dialContext exactly when some declaration was replaced as a dial target,
\* one body-less _listen exactly when some declaration was replaced as a
\* listen target, however many targets of a kind there are.
C4_StubsOncePerKind ==
    Succeeded =>
        LET od  == out.content.Decls
            nD  == StubCount(od, "_dialContext")
            nL  == StubCount(od, "_listen")
            pre == PreStub(od)
        IN  /\ Shift \in {0, 1}
            /\ Shift = 1 => pre[1].kind = "import" /\ ImportDecls(srcFile.Decls) = <<>>
            /\ \A i \in DOMAIN srcFile.Decls :
                  Skeleton(OutDecl(i)) = Skeleton(srcFile.Decls[i])
            /\ \A i \in DOMAIN od :
                  i > Len(pre) => IsStub(od[i], "_dialContext") \/ IsStub(od[i], "_listen")
            /\ nD = (IF \E i \in DOMAIN pre : CallsPlaceholder(pre[i], "_dialContext")
                     THEN 1 ELSE 0)
            /\ nL = (IF \E i \in DOMAIN pre : CallsPlaceholder(pre[i], "_listen")
                     THEN 1 ELSE 0)

\* A file with two dial targets and a listen target, rewritten.
C4_Witness ==
    /\ Succeeded
    /\ Cardinality({i \in DOMAIN out.content.Decls :
                       CallsPlaceholder(out.content.Decls[i], "_dialContext")}) = 2
    /\ \E i \in DOMAIN out.content.Decls :
          CallsPlaceholder(out.content.Decls[i], "_listen")
    /\ StubCount(out.content.Decls, "_dialContext") = 1

\* The three cases of the import step, common to C5 as stated and as amended.
ImportStep ==
    LET id  == ImportDecls(srcFile.Decls)
        od  == ImportDecls(out.content.Decls)
        has == UnsafeSpecs(srcFile.Decls) # {}
    IN  /\ has => od = id /\ out.Imports = srcFile.Imports
        /\ (~has /\ id # <<>>) =>
              /\ Len(od) = Len(id)
              /\ \A i \in 1..(Len(id) - 1) : od[i] = id[i]
              /\ od[Len(id)] = [id[Len(id)] EXCEPT !.Specs = Append(@, unsafeImport)]
              /\ out.Imports = Append(srcFile.Imports, unsafeImport)
        /\ (~has /\ id = <<>>) =>
              /\ od = <<ImportDecl(<<unsafeImport>>)>>
              /\ out.content.Decls[1] = ImportDecl(<<unsafeImport>>)
              /\ out.Imports = Append(srcFile.Imports, unsafeImport)

DialPredicate(decl) ==
    /\ decl.kind = "func"
    /\ decl.Name = "DialContext"
    /\ ~decl.Recv.nil
    /\ decl.Recv.List[1].Type.star
    /\ decl.Recv.List[1].Type.ident
    /\ decl.Recv.List[1].Type.name = "Dialer"

ListenPredicate(decl) ==
    decl.kind = "func" /\ decl.Name = "Listen" /\ decl.Recv.nil

\* C6: for a parseable file none of whose declarations satisfies the
\* dial-predicate or the listen-predicate, createReplacedNetSource returns
\* the 'no target functions' error and no content.
C6_NoTargetError ==
    (/\ out.done
     /\ srcFile.ok
     /\ \A i \in DOMAIN srcFile.Decls :
           ~DialPredicate(srcFile.Decls[i]) /\ ~ListenPredicate(srcFile.Decls[i]))
        => (out.err = "no target functions" /\ out.content = NoContent)

\* C7: in a file the matchers select, the rewriter replaces a declaration's
\* body exactly when the declaration satisfies one of the matchers; every
\* other declaration keeps its body and signature.
C7_ReplacesWhatMatches ==
    (Succeeded /\ FileMatches(srcFile)) =>
        \A i \in DOMAIN srcFile.Decls :
            LET d == srcFile.Decls[i]
            IN  d.kind = "func" =>
                  /\ (OutDecl(i).Body # d.Body) = (DialMatcher(d) \/ ListenMatcher(d))
                  /\ ~(DialMatcher(d) \/ ListenMatcher(d)) => OutDecl(i) = d

\* C8: the new body of a replaced declaration is a single return of a call
\* to the placeholder of its kind with the declaration's own parameter
\* names, in order, as arguments.
C8_ForwardsOwnParameters ==
    Succeeded =>
        \A i \in DOMAIN srcFile.Decls :
            LET d == srcFile.Decls[i]
            IN  (d.kind = "func" /\ OutDecl(i).Body # d.Body) =>
                  /\ OutDecl(i).Body.kind = "return"
                  /\ OutDecl(i).Body.Fun \in {"_dialContext", "_listen"}
                  /\ OutDecl(i).Body.Args = ParamNames(d)
                  /\ Len(OutDecl(i).Body.Args) =
                        (IF OutDecl(i).Body.Fun = "_dialContext" THEN 3 ELSE 2)

(***************************************************************************)
(* Claims about the overlay builder.                                       *)
(***************************************************************************)
DistinctPaths(srcs) ==
    \A i, j \in DOMAIN srcs : srcs[i].Path = srcs[j].Path => i = j

\* C1: for every handle CreateOverlayFile returned for inputs of pairwise
\* distinct Path, and until Close is called on it, the manifest at the
\* handle's path has the single field "Replace", whose mapping has one entry
\* per input, keyed by the input paths, each value an existing temporary
\* file holding that input's Content, no two keys sharing a file.
C1_ManifestCorrect ==
    \A i \in DOMAIN handles :
        (i \notin closed /\ DistinctPaths(srcsOf[i])) =>
            LET f    == handles[i]
                srcs == srcsOf[i]
            IN  /\ f.path \in DOMAIN files
                /\ files[f.path].kind = "json"
                /\ DOMAIN files[f.path].data = {"Replace"}
                /\ LET replace == files[f.path].data.Replace
                   IN  /\ Cardinality(DOMAIN replace) = Len(srcs)
                       /\ DOMAIN replace = {srcs[k].Path : k \in DOMAIN srcs}
                       /\ \A k \in DOMAIN srcs :
                             /\ replace[srcs[k].Path] \in DOMAIN files
                             /\ files[replace[srcs[k].Path]] = FileBytes(srcs[k].Content)
                       /\ \A p, q \in DOMAIN replace :
                             replace[p] = replace[q] => p = q

\* A live handle built from two inputs of different paths.
C1_Witness ==
    \E i \in DOMAIN handles :
        /\ i \notin closed
        /\ Len(srcsOf[i]) = 2
        /\ DistinctPaths(srcsOf[i])
        /\ handles[i].path \in DOMAIN files

\* C2: a Close step removes the manifest and every temporary file of its
\* handle and nothing else, whichever of them were already missing; it
\* reports no error; and a Close of a handle already closed changes nothing.
C2_CloseRemovesExactly ==
    [][ret'.op = "Close" =>
          LET f == handles[ret'.handle]
          IN  /\ DOMAIN files' = DOMAIN files \ HandlePaths(f)
              /\ \A x \in DOMAIN files' : files'[x] = files[x]
              /\ ret'.err = FALSE
              /\ (ret'.handle \in closed => files' = files)]_vars

\* Close on a handle with two temporary files, whose manifest was removed
\* by someone else before, while other files are in the directory.
C2_Witness ==
    /\ ret.op = "Close"
    /\ ~ret.again
    /\ Len(handles[ret.handle].tmpFilePaths) = 2
    /\ ret.missing = {handles[ret.handle].path}
    /\ DOMAIN files # {}

\* C10: CreateOverlayFile returns a handle exactly when no step failed, and
\* then every file of the handle is written; when step failAt fails it
\* returns an error and no handle, and the files created before the failure
\* stay on disk, belong to no handle and survive every later Close.
C10_FailureLeavesFiles ==
    /\ ret.op = "CreateOverlayFile" =>
          /\ (ret.handle # NoHandle) = ~ret.err
          /\ ret.err = (ret.failAt # 0)
          /\ ret.handle # NoHandle =>
                LET f == handles[ret.handle]
                IN  /\ Len(f.tmpFilePaths) = Len(ret.srcs)
                    /\ files[f.path].kind = "json"
                    /\ \A k \in DOMAIN ret.srcs :
                          files[f.tmpFilePaths[k]] = FileBytes(ret.srcs[k].Content)
          /\ ret.err =>
                /\ Cardinality(ret.created) = ret.failAt \div 2
                /\ ret.created \subseteq orphans
    /\ orphans \subseteq DOMAIN files
    /\ \A i \in DOMAIN handles : HandlePaths(handles[i]) \cap orphans = {}

\* A call failed writing the manifest, leaving three files, and a handle of
\* an earlier call was closed afterwards.
C10_Witness ==
    /\ Cardinality(orphans) = 3
    /\ ret.op = "Close"
    /\ orphans \subseteq DOMAIN files

====
